---- MODULE Spec2Model ----
(***************************************************************************)
(* Model of react-error-utils: the useRetry hook of @react-error-utils/     *)
(* hooks first, then useErrorHandler, ErrorBoundary, the testing utilities *)
(* renderWithErrorBoundary / waitForError and createBatchReporter.         *)
(*                                                                         *)
(* One hook instance is modelled.  React state (attempt, isRetrying, ...)  *)
(* and the three refs are the variables; every call of execute() that     *)
(* passes the guard starts one chain of runAttempt() calls, kept in seqs.  *)
(* A chain suspends at `await asyncFn()` (pc = "inflight") and at the      *)
(* `await new Promise(setTimeout)` (pc = "waiting"); the code between two  *)
(* suspension points runs to completion and is one action.  State setters  *)
(* called in a step are committed with that step, so the closure a caller  *)
(* holds after the step is the one of the render that follows it.          *)
(*                                                                         *)
(* Spec is the hook with an asyncFn that returns a promise, FairSpec adds  *)
(* settling operations and firing timers, ThrowSpec lets asyncFn also      *)
(* throw synchronously, DelaySpec applies calculateDelay on its own.       *)
(* QuietFairSpec is the hook whose owner never calls abort() or reset(),   *)
(* CallbackSpec lets onSuccess throw, LifeSpec adds the auto-start effect  *)
(* and the unmount.  The other components have a specification each        *)
(* (HandlerSpec, BoundarySpec, TestingSpec, BatchSpec / BatchFairSpec);    *)
(* a specification leaves the variables of the other components at their  *)
(* initial values.                                                         *)
(***************************************************************************)
EXTENDS Integers, Sequences, FiniteSets, TLC

\* ----- bounds of the model -----
MaxAttemptsBound == 2      \* maxAttempts ranges over 1..MaxAttemptsBound
MaxExecs == 3              \* number of execute() calls in one behaviour
RandSteps == 2             \* Math.random() is one of 0/RandSteps .. (RandSteps-1)/RandSteps
MaxThrowExecs == 2         \* number of execute() calls when asyncFn may also throw synchronously
MaxDelayAttempt == 3       \* calculateDelay is applied to attempts 1..MaxDelayAttempt
MaxQuietExecs == 2         \* number of execute() calls when abort() and reset() are not called
MaxCallbackExecs == 2      \* number of execute() calls when onSuccess may throw
MaxLifeExecs == 2          \* number of execute() calls when the effect and the unmount are modelled
MaxErrorsBound == 3        \* useErrorHandler: maxErrors ranges over 1..MaxErrorsBound
MaxThrows == 4             \* ErrorBoundary: number of errors its children throw in one behaviour
MaxResets == 4             \* ErrorBoundary: number of resetBoundary() calls in one behaviour
MaxTimeout == 3            \* waitForError: timeout ranges over 0..MaxTimeout polling intervals
MaxClock == 6              \* waitForError: the interval runs while Date.now() is below MaxClock
MaxBatchSize == 3          \* createBatchReporter: batchSize ranges over 1..MaxBatchSize
MaxReports == 5            \* createBatchReporter: number of errors reported in one behaviour
MaxHandled == 5            \* useErrorHandler: number of handleError calls in one behaviour

\* ----- option defaults of useRetry -----
DefaultInitialDelayMs == 1000
DefaultMaxDelayMs == 30000
DefaultBackoffMultiplier == 2
DefaultJitterPct == 10     \* jitter = 0.1, in percent

Null == <<>>               \* the JavaScript null
Pending == <<"pending">>   \* a promise that has not settled
Rejected == <<"rejected">> \* a promise that has rejected
\* Every invocation of asyncFn settles with an object of its own: attempt n of
\* chain s resolves with Val(s, n) or rejects with Err(s, n).
Val(s, n) == <<"val", s, n>>
Err(s, n) == <<"err", s, n>>
\* the error onSuccess throws when it is called with the result of attempt n of chain s
CallbackErr(s, n) == <<"err", s, n, "onSuccess">>

VARIABLES
  maxAttempts,   \* option maxAttempts
  stableDeps,    \* TRUE iff asyncFn, shouldRetry, onSuccess, onFailure keep their identity across renders
  attempt, isRetrying, isSuccess, isFailed, delayMs, error,   \* useState cells
  abortRef, timeoutRef, attemptRef,                           \* useRef cells
  seqs,          \* the runAttempt chains started by execute(), in start order
  hist,          \* per chain: what an observer of asyncFn and the callbacks has seen
  execCalls,     \* number of execute() calls made
  nullReturns,   \* number of execute() calls the guard answered with null
  calc,          \* one application of calculateDelay: its options, its argument, its result
  autoStart,     \* option autoStart
  mounted,       \* TRUE until the component that uses the hook is unmounted
  effectSeen,    \* the render (its useState cells) the auto-start effect last ran for
  autoCalls,     \* number of execute() calls made by the auto-start effect
  maxErrors,     \* useErrorHandler: option maxErrors
  errors,        \* useErrorHandler: the useState cell errors
  handledLog,    \* what a caller has passed to handleError since the last clearErrors(), newest first
  onErrorLog,    \* the errors the onError callback of useErrorHandler was called with, in order
  boundaryName,  \* ErrorBoundary: props.name, Null when not given
  boundaryState, \* ErrorBoundary: this.state, a record with error and errorInfo
  boundaryLog,   \* ErrorBoundary: what its children and its owner did, and the callbacks it called
  caughtError, caughtErrorInfo,   \* testing: the module-level state of renderWithErrorBoundary
  hookCallThrows, \* testing: TRUE iff React throws for a hook called outside a component render
  clock,         \* testing: Date.now(), in units of the polling interval
  waitTimeout,   \* testing: option timeout of waitForError, in the same units
  wait,          \* testing: the promise and the interval of one waitForError() call
  testLog,       \* testing: what the test did and what its error boundary caught
  batchSize,     \* createBatchReporter: option batchSize
  batch,         \* createBatchReporter: the pending events
  flushTimer,    \* createBatchReporter: TRUE iff flushTimer holds a timer id (is not null)
  flushTimerPending,   \* TRUE iff the timer set by setTimeout(flush, flushInterval) has neither fired nor been cleared
  reported,      \* number of batchReporter(error) calls made; call k creates event k
  sendLog        \* the sendBatch calls: their arguments, their outcomes, what flush logged

\* the state of one useRetry instance
retryVars == <<maxAttempts, stableDeps, attempt, isRetrying, isSuccess, isFailed,
               delayMs, error, abortRef, timeoutRef, attemptRef, seqs, hist,
               execCalls, nullReturns>>

\* the mount, effect and unmount state of that instance
lifeVars == <<autoStart, mounted, effectSeen, autoCalls>>

\* the state of the other components of the library
handlerVars == <<maxErrors, errors, handledLog, onErrorLog>>

boundaryVars == <<boundaryName, boundaryState, boundaryLog>>

testingVars == <<caughtError, caughtErrorInfo, hookCallThrows, clock, waitTimeout, wait, testLog>>

batchVars == <<batchSize, batch, flushTimer, flushTimerPending, reported, sendLog>>

otherVars == <<handlerVars, boundaryVars, testingVars, batchVars>>

vars == <<retryVars, calc, lifeVars, otherVars>>

\* ----- pure helpers -----
RECURSIVE Pow(_, _)
Pow(b, e) == IF e <= 0 THEN 1 ELSE b * Pow(b, e - 1)

Min(a, b) == IF a <= b THEN a ELSE b

Max(a, b) == IF a >= b THEN a ELSE b

\* mutant of calculateDelay: the exponent is currentAttempt instead of currentAttempt - 1
calculateDelayWrongExponent(currentAttempt, initialDelayMs, maxDelayMs, backoffMultiplier, jitterPct, rnd) ==
  LET baseDelay    == initialDelayMs * Pow(backoffMultiplier, currentAttempt)
      cappedDelay  == Min(baseDelay, maxDelayMs)
      jitterAmount == cappedDelay * jitterPct
      minDelay     == cappedDelay * 100 - jitterAmount
      maxDelay     == cappedDelay * 100 + jitterAmount
  IN  minDelay * RandSteps + rnd * (maxDelay - minDelay)

\* Delays are kept in units of 1/(100 * RandSteps) ms so that the jitter
\* percentage and the random fraction rnd/RandSteps stay exact in integer arithmetic.
calculateDelay(currentAttempt, initialDelayMs, maxDelayMs, backoffMultiplier, jitterPct, rnd) ==
  LET baseDelay    == initialDelayMs * Pow(backoffMultiplier, currentAttempt - 1)
      cappedDelay  == Min(baseDelay, maxDelayMs)
      jitterAmount == cappedDelay * jitterPct
      minDelay     == cappedDelay * 100 - jitterAmount
      maxDelay     == cappedDelay * 100 + jitterAmount
  IN  minDelay * RandSteps + rnd * (maxDelay - minDelay)

\* the isRetrying value seen by the guard of the execute callback the caller holds
CapturedIsRetrying == IF stableDeps THEN FALSE ELSE isRetrying

\* mutants of the terminal-failure test: an off-by-one bound, a predicate never asked
ShouldStopOffByOne(currentAttempt, retryAnswer) ==
  currentAttempt > maxAttempts \/ ~retryAnswer

ShouldStopIgnoresAnswer(currentAttempt, retryAnswer) ==
  currentAttempt >= maxAttempts

\* the terminal-failure test of the catch block
ShouldStop(currentAttempt, retryAnswer) ==
  currentAttempt >= maxAttempts \/ ~retryAnswer

\* a chain that can still run code: its operation is in flight or its timer is pending
Live(q) == q.pc \in {"inflight", "thrown"} \/ (q.pc = "waiting" /\ q.timer)

SeqIds == 1..Len(seqs)

NewSeq == [pc |-> "inflight", currentAttempt |-> 1, timer |-> FALSE, result |-> Pending]

\* No chain is between a synchronous throw of asyncFn() and its catch block: the two
\* belong to one synchronous run, so nothing else runs in between.
NoThrown == \A s \in SeqIds : seqs[s].pc # "thrown"

\* mutant of the call site: asyncFn() called outside the try block, a synchronous
\* throw leaves runAttempt and rejects the promise
AfterCallThrowEscapes(q, syncThrow) ==
  IF syncThrow THEN [q EXCEPT !.pc = "done", !.result = Rejected]
               ELSE [q EXCEPT !.pc = "inflight"]

\* chain q right after `asyncFn()` is called inside the try block: it either returned
\* a promise that is awaited, or threw synchronously and the catch block runs next
AfterCall(q, syncThrow) ==
  IF syncThrow THEN [q EXCEPT !.pc = "thrown"]
               ELSE [q EXCEPT !.pc = "inflight"]

NewHist(clean) ==
  [invocations |-> 1, fails |-> 0, lastErr |-> Null, refusedAt |-> 0,
   timersStarted |-> 0, onSuccessLog |-> <<>>, onFailureLog |-> <<>>,
   clean |-> clean, abortedAttempt |-> 0, invAtAbort |-> 0, syncFails |-> 0]

\* an observer's note that execute(), abort() or reset() was called while chains were live
Disturbed ==
  [s \in SeqIds |-> IF Live(seqs[s]) THEN [hist[s] EXCEPT !.clean = FALSE] ELSE hist[s]]

\* an observer's note of the chains an abort() found in flight or waiting
NoteAbort ==
  [s \in SeqIds |->
     IF seqs[s].pc = "inflight"
       THEN [hist[s] EXCEPT !.clean = FALSE, !.abortedAttempt = seqs[s].currentAttempt]
     ELSE IF seqs[s].pc = "waiting" /\ seqs[s].timer
       THEN [hist[s] EXCEPT !.clean = FALSE, !.invAtAbort = hist[s].invocations]
     ELSE hist[s]]

\* clearTimeout(timeoutRef.current): the timer of that chain, if still pending, is removed
ClearTimer ==
  [s \in SeqIds |-> IF s = timeoutRef THEN [seqs[s] EXCEPT !.timer = FALSE] ELSE seqs[s]]

\* mutant of the state setters of execute(): setIsFailed(false) left out
ResetTransientKeepsFailed ==
  /\ attempt' = 1
  /\ isSuccess' = FALSE
  /\ UNCHANGED isFailed
  /\ error' = Null
  /\ delayMs' = 0

\* mutant of the state setters of execute(): setError(null) left out
ResetTransientKeepsError ==
  /\ attempt' = 1
  /\ isSuccess' = FALSE
  /\ isFailed' = FALSE
  /\ UNCHANGED error
  /\ delayMs' = 0

\* the state setters execute() calls before runAttempt(1)
ResetTransient ==
  /\ attempt' = 1
  /\ isSuccess' = FALSE
  /\ isFailed' = FALSE
  /\ error' = Null
  /\ delayMs' = 0

\* calculateDelay not applied (the hook specifications leave calc alone)
IdleCalc ==
  [currentAttempt |-> 0, initialDelayMs |-> 0, maxDelayMs |-> 0, backoffMultiplier |-> 0,
   jitterPct |-> 0, rnd |-> 0, called |-> FALSE, delay |-> 0]

\* useState cells as one render shows them
Cells == <<attempt, isRetrying, isSuccess, isFailed, delayMs, error>>

\* no render has had its effects run yet
NoRender == <<"none">>

\* a mounted instance without autoStart (the default): the effect never calls execute()
LifeIdle ==
  /\ autoStart = FALSE
  /\ mounted = TRUE
  /\ effectSeen = NoRender
  /\ autoCalls = 0

\* useErrorHandler right after its first render
HandlerIdle ==
  /\ errors = <<>>
  /\ handledLog = <<>>
  /\ onErrorLog = <<>>

\* ErrorBoundary right after construction: state = { error: null, errorInfo: null }
BoundaryIdle ==
  /\ boundaryState = [error |-> Null, errorInfo |-> Null]
  /\ boundaryLog = [thrown |-> <<>>, resets |-> 0, uncleared |-> FALSE,
                    onError |-> <<>>, onReset |-> 0, onResetBoundary |-> 0]

\* the testing module loaded, nothing rendered, waitForError not called
TestingIdle ==
  /\ caughtError = Null
  /\ caughtErrorInfo = Null
  /\ clock = 0
  /\ wait = [status |-> "none", startTime |-> 0, checkInterval |-> FALSE, value |-> Null]
  /\ testLog = [rendered |-> FALSE, caught |-> Null, caughtInTime |-> FALSE]

\* the closure createBatchReporter returns, before its first call
BatchIdle ==
  /\ batch = <<>>
  /\ flushTimer = FALSE
  /\ flushTimerPending = FALSE
  /\ reported = 0
  /\ sendLog = [sent |-> <<>>, outcomes |-> <<>>, consoleErrors |-> 0, threw |-> FALSE]

\* the other components are not used
OthersIdle ==
  /\ batchSize = 1
  /\ BatchIdle
  /\ hookCallThrows = FALSE
  /\ waitTimeout = 0
  /\ TestingIdle
  /\ maxErrors = 1
  /\ HandlerIdle
  /\ boundaryName = Null
  /\ BoundaryIdle

Init ==
  /\ calc = IdleCalc
  /\ LifeIdle
  /\ OthersIdle
  /\ maxAttempts \in 1..MaxAttemptsBound
  /\ stableDeps \in BOOLEAN
  /\ attempt = 0
  /\ isRetrying = FALSE
  /\ isSuccess = FALSE
  /\ isFailed = FALSE
  /\ delayMs = 0
  /\ error = Null
  /\ abortRef = FALSE
  /\ timeoutRef = 0
  /\ attemptRef = 0
  /\ seqs = <<>>
  /\ hist = <<>>
  /\ execCalls = 0
  /\ nullReturns = 0

\* the body of execute(): guard, reset of the transient state, runAttempt(1) up to
\* its first await
ExecuteBody(syncThrow, limit) ==
  /\ NoThrown
  /\ execCalls < limit
  /\ execCalls' = execCalls + 1
  /\ IF CapturedIsRetrying
       THEN /\ nullReturns' = nullReturns + 1
            /\ hist' = Disturbed
            /\ UNCHANGED <<attempt, isRetrying, isSuccess, isFailed, delayMs, error,
                           abortRef, timeoutRef, attemptRef, seqs>>
       ELSE /\ abortRef' = FALSE
            /\ attemptRef' = 1
            /\ ResetTransient
            /\ seqs' = Append(seqs, AfterCall(NewSeq, syncThrow))
            /\ hist' = Append(Disturbed, NewHist(\A s \in SeqIds : ~Live(seqs[s])))
            /\ UNCHANGED <<isRetrying, timeoutRef, nullReturns>>
  /\ UNCHANGED <<calc, otherVars, maxAttempts, stableDeps>>

\* execute() called by the owner of the hook
ExecuteWith(syncThrow, limit) ==
  /\ ExecuteBody(syncThrow, limit)
  /\ UNCHANGED lifeVars

\* execute() with an asyncFn that returns a promise
Execute == ExecuteWith(FALSE, MaxExecs)

\* mutant of the success path: onSuccess is not called
OpResolveNoCallback(s) ==
  /\ NoThrown
  /\ seqs[s].pc = "inflight"
  /\ isSuccess' = TRUE
  /\ seqs' = [seqs EXCEPT ![s].pc = "done", ![s].result = Val(s, seqs[s].currentAttempt)]
  /\ UNCHANGED <<calc, lifeVars, otherVars, maxAttempts, stableDeps, attempt, isRetrying, isFailed, delayMs, error,
                 abortRef, timeoutRef, attemptRef, execCalls, nullReturns, hist>>

\* asyncFn() of chain s resolves with v: the try block after the await
OpResolve(s) ==
  /\ NoThrown
  /\ seqs[s].pc = "inflight"
  /\ isSuccess' = TRUE
  /\ LET result == Val(s, seqs[s].currentAttempt)
     IN /\ seqs' = [seqs EXCEPT ![s].pc = "done", ![s].result = result]
        /\ hist' = [hist EXCEPT ![s].onSuccessLog = Append(@, result)]
  /\ UNCHANGED <<calc, lifeVars, otherVars, maxAttempts, stableDeps, attempt, isRetrying, isFailed, delayMs, error,
                 abortRef, timeoutRef, attemptRef, execCalls, nullReturns>>

\* the catch block of runAttempt for the error e caught in attempt n of chain s, up
\* to `return null` or to the await of the timer; h is what the observer has noted
\* of the chain so far
CatchBlock(s, n, e, h, retryAnswer, rnd) ==
  IF ShouldStop(n, retryAnswer)
    THEN /\ isFailed' = TRUE
         /\ error' = e
         /\ seqs' = [seqs EXCEPT ![s].pc = "done", ![s].result = Null]
         /\ hist' = [hist EXCEPT ![s] = [h EXCEPT !.onFailureLog = Append(@, <<e, n>>)]]
         /\ UNCHANGED <<delayMs, isRetrying, timeoutRef>>
    ELSE /\ delayMs' = calculateDelay(n, DefaultInitialDelayMs, DefaultMaxDelayMs,
                                      DefaultBackoffMultiplier, DefaultJitterPct, rnd)
         /\ isRetrying' = TRUE
         /\ timeoutRef' = s
         /\ seqs' = [seqs EXCEPT ![s].pc = "waiting", ![s].timer = TRUE]
         /\ hist' = [hist EXCEPT ![s] = [h EXCEPT !.timersStarted = @ + 1]]
         /\ UNCHANGED <<isFailed, error>>

\* asyncFn() of chain s rejects with e: the catch block up to the await of the timer
OpReject(s, retryAnswer, rnd) ==
  /\ \/ seqs[s].pc = "inflight" /\ NoThrown
     \/ seqs[s].pc = "thrown"
  /\ LET n == seqs[s].currentAttempt
         e == Err(s, n)
         h == [hist[s] EXCEPT !.fails = @ + 1, !.lastErr = e,
                              !.syncFails = IF seqs[s].pc = "thrown" THEN @ + 1 ELSE @,
                              !.refusedAt = IF n < maxAttempts /\ ~retryAnswer THEN n ELSE @]
     IN CatchBlock(s, n, e, h, retryAnswer, rnd)
  /\ UNCHANGED <<calc, lifeVars, otherVars, maxAttempts, stableDeps, attempt, isSuccess, abortRef, attemptRef,
                 execCalls, nullReturns>>

\* asyncFn() of chain s resolves and the onSuccess callback throws: setIsSuccess(true)
\* and the call of onSuccess are inside the try block, so the catch block runs with
\* the error the callback threw
OpResolveOnSuccessThrows(s, retryAnswer, rnd) ==
  /\ NoThrown
  /\ seqs[s].pc = "inflight"
  /\ isSuccess' = TRUE
  /\ LET n == seqs[s].currentAttempt
         result == Val(s, n)
         e == CallbackErr(s, n)
         h == [hist[s] EXCEPT !.onSuccessLog = Append(@, result)]
     IN CatchBlock(s, n, e, h, retryAnswer, rnd)
  /\ UNCHANGED <<calc, lifeVars, otherVars, maxAttempts, stableDeps, attempt, abortRef, attemptRef,
                 execCalls, nullReturns>>

\* the delay timer of chain s fires: abort check, next attempt up to its await
TimerFireWith(s, syncThrow) ==
  /\ NoThrown
  /\ seqs[s].pc = "waiting"
  /\ seqs[s].timer
  /\ IF abortRef
       THEN /\ seqs' = [seqs EXCEPT ![s].pc = "done", ![s].timer = FALSE, ![s].result = Null]
            /\ UNCHANGED <<attemptRef, attempt, isRetrying, delayMs, hist>>
       ELSE LET nextAttempt == seqs[s].currentAttempt + 1
            IN /\ attemptRef' = nextAttempt
               /\ attempt' = nextAttempt
               /\ isRetrying' = FALSE
               /\ delayMs' = 0
               /\ seqs' = [seqs EXCEPT ![s] = AfterCall([@ EXCEPT !.timer = FALSE,
                                                                  !.currentAttempt = nextAttempt],
                                                       syncThrow)]
               /\ hist' = [hist EXCEPT ![s].invocations = @ + 1]
  /\ UNCHANGED <<calc, lifeVars, otherVars, maxAttempts, stableDeps, isSuccess, isFailed, error, abortRef, timeoutRef,
                 execCalls, nullReturns>>

\* the timer fires and asyncFn, if called again, returns a promise
TimerFire(s) == TimerFireWith(s, FALSE)

\* mutant of abort(): the sequence is marked Failed
AbortMarksFailed ==
  /\ NoThrown
  /\ abortRef' = TRUE
  /\ seqs' = ClearTimer
  /\ timeoutRef' = 0
  /\ isRetrying' = FALSE
  /\ delayMs' = 0
  /\ isFailed' = TRUE
  /\ hist' = NoteAbort
  /\ UNCHANGED <<calc, lifeVars, otherVars, maxAttempts, stableDeps, attempt, isSuccess, error, attemptRef,
                 execCalls, nullReturns>>

\* abort()
Abort ==
  /\ NoThrown
  /\ abortRef' = TRUE
  /\ seqs' = ClearTimer
  /\ timeoutRef' = 0
  /\ isRetrying' = FALSE
  /\ delayMs' = 0
  /\ hist' = NoteAbort
  /\ UNCHANGED <<calc, lifeVars, otherVars, maxAttempts, stableDeps, attempt, isSuccess, isFailed, error, attemptRef,
                 execCalls, nullReturns>>

\* mutant of reset(): the abort flag is cleared
ResetClearsAbort ==
  /\ NoThrown
  /\ abortRef' = FALSE
  /\ seqs' = ClearTimer
  /\ timeoutRef' = 0
  /\ isRetrying' = FALSE
  /\ attempt' = 0
  /\ isSuccess' = FALSE
  /\ isFailed' = FALSE
  /\ error' = Null
  /\ delayMs' = 0
  /\ attemptRef' = 0
  /\ hist' = NoteAbort
  /\ UNCHANGED <<calc, lifeVars, otherVars, maxAttempts, stableDeps, execCalls, nullReturns>>

\* reset(): abort() and then the clearing of the state
Reset ==
  /\ NoThrown
  /\ abortRef' = TRUE
  /\ seqs' = ClearTimer
  /\ timeoutRef' = 0
  /\ isRetrying' = FALSE
  /\ attempt' = 0
  /\ isSuccess' = FALSE
  /\ isFailed' = FALSE
  /\ error' = Null
  /\ delayMs' = 0
  /\ attemptRef' = 0
  /\ hist' = NoteAbort
  /\ UNCHANGED <<calc, lifeVars, otherVars, maxAttempts, stableDeps, execCalls, nullReturns>>

Next ==
  \/ Execute
  \/ \E s \in SeqIds : OpResolve(s)
  \/ \E s \in SeqIds, retryAnswer \in BOOLEAN, rnd \in 0..(RandSteps - 1) :
       OpReject(s, retryAnswer, rnd)
  \/ \E s \in SeqIds : TimerFire(s)
  \/ Abort
  \/ Reset

Spec == Init /\ [][Next]_vars

\* ----- the hook with an asyncFn that may also throw synchronously -----
ThrowNext ==
  \/ \E syncThrow \in BOOLEAN : ExecuteWith(syncThrow, MaxThrowExecs)
  \/ \E s \in SeqIds : OpResolve(s)
  \/ \E s \in SeqIds, retryAnswer \in BOOLEAN, rnd \in 0..(RandSteps - 1) :
       OpReject(s, retryAnswer, rnd)
  \/ \E s \in SeqIds, syncThrow \in BOOLEAN : TimerFireWith(s, syncThrow)
  \/ Abort
  \/ Reset

ThrowSpec == Init /\ [][ThrowNext]_vars

\* ----- the hook with an onSuccess callback that may throw -----
CallbackNext ==
  \/ ExecuteWith(FALSE, MaxCallbackExecs)
  \/ \E s \in SeqIds : OpResolve(s)
  \/ \E s \in SeqIds, retryAnswer \in BOOLEAN, rnd \in 0..(RandSteps - 1) :
       OpResolveOnSuccessThrows(s, retryAnswer, rnd)
  \/ \E s \in SeqIds, retryAnswer \in BOOLEAN, rnd \in 0..(RandSteps - 1) :
       OpReject(s, retryAnswer, rnd)
  \/ \E s \in SeqIds : TimerFire(s)
  \/ Abort
  \/ Reset

CallbackSpec == Init /\ [][CallbackNext]_vars

\* ----- calculateDelay on its own: options and argument drawn from small sets -----
InitialDelays == {0, 10, 1000}
MaxDelays == {0, 25, 30000}
Multipliers == {1, 2, 3}
JitterPcts == {0, 10, 50, 100, 150, 200}   \* jitter 0, 0.1, 0.5, 1, 1.5, 2

DelayInit ==
  /\ calc \in [currentAttempt : 1..MaxDelayAttempt, initialDelayMs : InitialDelays,
                maxDelayMs : MaxDelays, backoffMultiplier : Multipliers,
                jitterPct : JitterPcts, rnd : 0..(RandSteps - 1),
                called : {FALSE}, delay : {0}]
  /\ LifeIdle
  /\ OthersIdle
  /\ maxAttempts = MaxAttemptsBound
  /\ stableDeps = FALSE
  /\ attempt = 0
  /\ isRetrying = FALSE
  /\ isSuccess = FALSE
  /\ isFailed = FALSE
  /\ delayMs = 0
  /\ error = Null
  /\ abortRef = FALSE
  /\ timeoutRef = 0
  /\ attemptRef = 0
  /\ seqs = <<>>
  /\ hist = <<>>
  /\ execCalls = 0
  /\ nullReturns = 0

\* const delay = calculateDelay(currentAttempt)
CalcDelay ==
  /\ ~calc.called
  /\ calc' = [calc EXCEPT !.called = TRUE,
                          !.delay = calculateDelay(calc.currentAttempt, calc.initialDelayMs,
                                                   calc.maxDelayMs, calc.backoffMultiplier,
                                                   calc.jitterPct, calc.rnd)]
  /\ UNCHANGED <<retryVars, lifeVars, otherVars>>

DelayNext == CalcDelay

DelaySpec == DelayInit /\ [][DelayNext]_vars

\* ----- the hook over its life: first render, auto-start effect, re-renders, unmount -----
LifeInit ==
  /\ calc = IdleCalc
  /\ OthersIdle
  /\ autoStart \in BOOLEAN
  /\ mounted = TRUE
  /\ effectSeen = NoRender
  /\ autoCalls = 0
  /\ maxAttempts \in 1..MaxAttemptsBound
  /\ stableDeps \in BOOLEAN
  /\ attempt = 0
  /\ isRetrying = FALSE
  /\ isSuccess = FALSE
  /\ isFailed = FALSE
  /\ delayMs = 0
  /\ error = Null
  /\ abortRef = FALSE
  /\ timeoutRef = 0
  /\ attemptRef = 0
  /\ seqs = <<>>
  /\ hist = <<>>
  /\ execCalls = 0
  /\ nullReturns = 0

\* The effect `if (autoStart) execute()` has to run: after the first render, and after
\* every later render in which execute has a new identity.  execute is rebuilt when
\* one of its dependencies (asyncFn, the options, the callbacks) changes, a render
\* follows every change of a useState cell, and React runs the effects of a render
\* before it handles anything else.
EffectDue ==
  /\ autoStart
  /\ mounted
  /\ \/ effectSeen = NoRender
     \/ ~stableDeps /\ effectSeen # Cells

\* useEffect(() => { if (autoStart) execute() }, [autoStart, execute])
AutoStartEffect ==
  /\ EffectDue
  /\ ExecuteBody(FALSE, MaxLifeExecs)
  /\ effectSeen' = Cells
  /\ autoCalls' = autoCalls + 1
  /\ UNCHANGED <<autoStart, mounted>>

\* the cleanup of the unmount effect: clearTimeout(timeoutRef.current)
Unmount ==
  /\ mounted
  /\ NoThrown
  /\ mounted' = FALSE
  /\ seqs' = ClearTimer
  /\ UNCHANGED <<calc, otherVars, maxAttempts, stableDeps, attempt, isRetrying, isSuccess,
                 isFailed, delayMs, error, abortRef, timeoutRef, attemptRef, hist,
                 execCalls, nullReturns, autoStart, effectSeen, autoCalls>>

\* The owner calls execute(), abort() and reset() only while mounted; operations
\* settle and timers fire whether the component is mounted or not.
LifeNext ==
  \/ AutoStartEffect
  \/ ~EffectDue /\ mounted /\ ExecuteWith(FALSE, MaxLifeExecs)
  \/ ~EffectDue /\ \E s \in SeqIds : OpResolve(s)
  \/ ~EffectDue /\ \E s \in SeqIds, retryAnswer \in BOOLEAN, rnd \in 0..(RandSteps - 1) :
                     OpReject(s, retryAnswer, rnd)
  \/ ~EffectDue /\ \E s \in SeqIds : TimerFire(s)
  \/ ~EffectDue /\ mounted /\ Abort
  \/ ~EffectDue /\ mounted /\ Reset
  \/ ~EffectDue /\ Unmount

LifeSpec == LifeInit /\ [][LifeNext]_vars

\* a useRetry instance that is created and never used
RetryIdle ==
  /\ maxAttempts = MaxAttemptsBound
  /\ stableDeps = FALSE
  /\ attempt = 0
  /\ isRetrying = FALSE
  /\ isSuccess = FALSE
  /\ isFailed = FALSE
  /\ delayMs = 0
  /\ error = Null
  /\ abortRef = FALSE
  /\ timeoutRef = 0
  /\ attemptRef = 0
  /\ seqs = <<>>
  /\ hist = <<>>
  /\ execCalls = 0
  /\ nullReturns = 0
  /\ calc = IdleCalc
  /\ LifeIdle

\* ----- useErrorHandler -----
HandlerErrors == {<<"e1">>, <<"e2">>}    \* the Error objects a caller passes to handleError

\* Array.prototype.slice(0, end) for end >= 0
SliceFromStart(arr, end) == SubSeq(arr, 1, Min(end, Len(arr)))

\* latestError: errors[0] || null
latestError == IF Len(errors) > 0 THEN errors[1] ELSE Null

\* ErrorBoundary, the testing utilities and the batch reporter are not used
OnlyHandlerUsed ==
  /\ boundaryName = Null
  /\ BoundaryIdle
  /\ hookCallThrows = FALSE
  /\ waitTimeout = 0
  /\ TestingIdle
  /\ batchSize = 1
  /\ BatchIdle

HandlerInit ==
  /\ RetryIdle
  /\ OnlyHandlerUsed
  /\ maxErrors \in 1..MaxErrorsBound
  /\ HandlerIdle

\* mutant of handleError(error): the history is not cut to maxErrors
HandleErrorNoSlice(e) ==
  /\ Len(onErrorLog) < MaxHandled
  /\ onErrorLog' = Append(onErrorLog, e)
  /\ errors' = <<e>> \o errors
  /\ handledLog' = <<e>> \o handledLog
  /\ UNCHANGED <<retryVars, calc, lifeVars, boundaryVars, testingVars, batchVars, maxErrors>>

\* handleError(error): onError?.(error), then setErrors(prev => [error, ...prev].slice(0, maxErrors))
HandleError(e) ==
  /\ Len(onErrorLog) < MaxHandled
  /\ onErrorLog' = Append(onErrorLog, e)
  /\ errors' = SliceFromStart(<<e>> \o errors, maxErrors)
  /\ handledLog' = <<e>> \o handledLog
  /\ UNCHANGED <<retryVars, calc, lifeVars, boundaryVars, testingVars, batchVars, maxErrors>>

\* clearErrors(): setErrors([])
ClearErrors ==
  /\ errors' = <<>>
  /\ handledLog' = <<>>
  /\ UNCHANGED <<retryVars, calc, lifeVars, boundaryVars, testingVars, batchVars, maxErrors, onErrorLog>>

HandlerNext ==
  \/ \E e \in HandlerErrors : HandleError(e)
  \/ ClearErrors

HandlerSpec == HandlerInit /\ [][HandlerNext]_vars

\* ----- ErrorBoundary -----
BoundaryErrors == {<<"e1">>, <<"e2">>}     \* the Error objects a child throws
ComponentStack == "at Child"       \* the componentStack React passes to componentDidCatch
DefaultBoundaryName == <<"ErrorBoundary">>

\* render(): the fallback (with the error and the info a function fallback is given)
\* when state.error is set, the children otherwise
Render(state) ==
  IF state.error # Null
    THEN [shows |-> "fallback", error |-> state.error,
          info |-> IF state.errorInfo # Null THEN state.errorInfo
                                             ELSE [componentStack |-> ""]]
    ELSE [shows |-> "children"]

\* static getDerivedStateFromError(error)
getDerivedStateFromError(e) == [error |-> e, errorInfo |-> Null]

BoundaryInit ==
  /\ RetryIdle
  /\ batchSize = 1
  /\ BatchIdle
  /\ maxErrors = 1
  /\ HandlerIdle
  /\ hookCallThrows = FALSE
  /\ waitTimeout = 0
  /\ TestingIdle
  /\ boundaryName \in {Null, <<"Main">>}
  /\ BoundaryIdle

\* A child throws e while it is rendered: React calls getDerivedStateFromError(e),
\* renders the boundary again and calls componentDidCatch(e, info) in the commit.
ChildThrows(e) ==
  /\ Render(boundaryState).shows = "children"
  /\ Len(boundaryLog.thrown) < MaxThrows
  /\ LET derived == getDerivedStateFromError(e)
         errorInfoWithBoundary ==
           [componentStack |-> ComponentStack,
            boundaryName |-> IF boundaryName # Null THEN boundaryName ELSE DefaultBoundaryName]
     IN /\ Render(derived).shows = "fallback"
        /\ boundaryState' = [error |-> e, errorInfo |-> errorInfoWithBoundary]
        /\ boundaryLog' = [boundaryLog EXCEPT !.thrown = Append(@, e), !.uncleared = TRUE,
                                              !.onError = Append(@, <<e, errorInfoWithBoundary>>)]
  /\ UNCHANGED <<retryVars, calc, lifeVars, handlerVars, testingVars, batchVars, boundaryName>>

\* mutant of resetBoundary(): onReset is not called
ResetBoundaryNoCallback ==
  /\ boundaryLog.resets < MaxResets
  /\ boundaryState' = [error |-> Null, errorInfo |-> Null]
  /\ boundaryLog' = [boundaryLog EXCEPT !.resets = @ + 1, !.uncleared = FALSE,
                                        !.onResetBoundary = @ + 1]
  /\ UNCHANGED <<retryVars, calc, lifeVars, handlerVars, testingVars, batchVars, boundaryName>>

\* resetBoundary(): setState({ error: null, errorInfo: null }), onReset?.(), onResetBoundary?.()
ResetBoundary ==
  /\ boundaryLog.resets < MaxResets
  /\ boundaryState' = [error |-> Null, errorInfo |-> Null]
  /\ boundaryLog' = [boundaryLog EXCEPT !.resets = @ + 1, !.uncleared = FALSE,
                                        !.onReset = @ + 1, !.onResetBoundary = @ + 1]
  /\ UNCHANGED <<retryVars, calc, lifeVars, handlerVars, testingVars, batchVars, boundaryName>>

BoundaryNext ==
  \/ \E e \in BoundaryErrors : ChildThrows(e)
  \/ ResetBoundary

BoundarySpec == BoundaryInit /\ [][BoundaryNext]_vars

\* ----- testing utilities: renderWithErrorBoundary and waitForError(options) -----
TestErrors == {<<"e1">>, <<"e2">>}    \* the Error objects the boundary's onError is called with

TestingInit ==
  /\ RetryIdle
  /\ batchSize = 1
  /\ BatchIdle
  /\ maxErrors = 1
  /\ HandlerIdle
  /\ boundaryName = Null
  /\ BoundaryIdle
  /\ hookCallThrows \in BOOLEAN
  /\ waitTimeout \in 0..MaxTimeout
  /\ TestingIdle

\* The test calls renderWithErrorBoundary(ui, options): the module state is cleared,
\* then useCallback is called outside any component render, which either throws (the
\* call never returns its handle) or returns; nothing is mounted.
RenderWithErrorBoundary ==
  /\ wait.status = "none"
  /\ ~testLog.rendered
  /\ testLog.caught = Null
  /\ caughtError' = Null
  /\ caughtErrorInfo' = Null
  /\ testLog' = [testLog EXCEPT !.rendered = ~hookCallThrows]
  /\ UNCHANGED <<retryVars, calc, lifeVars, handlerVars, boundaryVars, batchVars,
                 hookCallThrows, clock, waitTimeout, wait>>

\* handleError(err, info), the onError of the boundary the test set up, is called
\* with the error the boundary caught
HandleCaught(e) ==
  /\ testLog.rendered
  /\ testLog.caught = Null
  /\ caughtError' = e
  /\ caughtErrorInfo' = [componentStack |-> ComponentStack]
  /\ testLog' = [testLog EXCEPT
                   !.caught = e,
                   !.caughtInTime = \/ wait.status = "none"
                                    \/ /\ wait.status = "pending"
                                       /\ clock - wait.startTime <= waitTimeout]
  /\ UNCHANGED <<retryVars, calc, lifeVars, handlerVars, boundaryVars, batchVars,
                 hookCallThrows, clock, waitTimeout, wait>>

\* waitForError(options) up to the return of the promise
WaitForError ==
  /\ wait.status = "none"
  /\ wait' = [status |-> "pending", startTime |-> clock, checkInterval |-> TRUE, value |-> Null]
  /\ UNCHANGED <<retryVars, calc, lifeVars, handlerVars, boundaryVars, batchVars,
                 caughtError, caughtErrorInfo, hookCallThrows, clock, waitTimeout, testLog>>

\* One run of the setInterval callback, elapsed units after the previous one.  It
\* calls renderWithErrorBoundary(<></>, ...), which clears the module state before
\* anything else, and reads the error through the getCaughtError of that call.  A
\* promise settles once: a reject after a resolve changes nothing.
IntervalTick(elapsed) ==
  /\ wait.checkInterval
  /\ clock < MaxClock
  /\ clock' = clock + elapsed
  /\ caughtError' = Null
  /\ caughtErrorInfo' = Null
  /\ IF hookCallThrows
       THEN UNCHANGED wait
       ELSE LET err      == caughtError'
                found    == err # Null
                timedOut == clock' - wait.startTime > waitTimeout
                settled  == IF found THEN [wait EXCEPT !.status = "resolved", !.value = err]
                            ELSE IF timedOut THEN [wait EXCEPT !.status = "rejected"]
                            ELSE wait
            IN wait' = [settled EXCEPT !.checkInterval = ~(found \/ timedOut)]
  /\ UNCHANGED <<retryVars, calc, lifeVars, handlerVars, boundaryVars, batchVars,
                 hookCallThrows, waitTimeout, testLog>>

TestingNext ==
  \/ RenderWithErrorBoundary
  \/ \E e \in TestErrors : HandleCaught(e)
  \/ WaitForError
  \/ \E elapsed \in 1..2 : IntervalTick(elapsed)

TestingSpec == TestingInit /\ [][TestingNext]_vars

\* ----- createBatchReporter -----
BatchInit ==
  /\ RetryIdle
  /\ maxErrors = 1
  /\ HandlerIdle
  /\ boundaryName = Null
  /\ BoundaryIdle
  /\ hookCallThrows = FALSE
  /\ waitTimeout = 0
  /\ TestingIdle
  /\ batchSize \in 1..MaxBatchSize
  /\ BatchIdle

\* mutant of flush(): sendBatch is called outside the try block, a synchronous throw
\* leaves flush and its caller
FlushNoCatch(pushed, pending, sendThrows) ==
  IF Len(pushed) = 0
    THEN /\ batch' = pushed
         /\ flushTimerPending' = pending
         /\ UNCHANGED <<flushTimer, sendLog>>
    ELSE /\ batch' = <<>>
         /\ flushTimer' = FALSE
         /\ flushTimerPending' = IF flushTimer THEN FALSE ELSE pending
         /\ sendLog' = [sendLog EXCEPT
                          !.sent = Append(@, pushed),
                          !.outcomes = Append(@, IF sendThrows THEN "threw" ELSE "pending"),
                          !.threw = @ \/ sendThrows]

\* flush() called when the batch array holds `pushed` and the timer is in state
\* `pending`, up to `await sendBatch(events)`; a synchronous throw of sendBatch is
\* caught and logged in the same run
Flush(pushed, pending, sendThrows) ==
  IF Len(pushed) = 0
    THEN /\ batch' = pushed
         /\ flushTimerPending' = pending
         /\ UNCHANGED <<flushTimer, sendLog>>
    ELSE /\ batch' = <<>>
         /\ flushTimer' = FALSE
         /\ flushTimerPending' = IF flushTimer THEN FALSE ELSE pending
         /\ sendLog' = [sendLog EXCEPT
                          !.sent = Append(@, pushed),
                          !.outcomes = Append(@, IF sendThrows THEN "threw" ELSE "pending"),
                          !.consoleErrors = IF sendThrows THEN @ + 1 ELSE @]

\* batchReporter(error, errorInfo): the event is pushed, then a full batch is flushed
\* and otherwise the flush timer is set unless flushTimer already holds one
BatchReporter(sendThrows) ==
  /\ reported < MaxReports
  /\ reported' = reported + 1
  /\ LET event  == reported + 1
         pushed == Append(batch, event)
     IN IF Len(pushed) >= batchSize
          THEN Flush(pushed, flushTimerPending, sendThrows)
          ELSE /\ batch' = pushed
               /\ flushTimer' = TRUE
               /\ flushTimerPending' = IF flushTimer THEN flushTimerPending ELSE TRUE
               /\ UNCHANGED sendLog
  /\ UNCHANGED <<retryVars, calc, lifeVars, handlerVars, boundaryVars, testingVars, batchSize>>

\* the timer set by setTimeout(flush, flushInterval) fires: flush()
FlushTimerFires(sendThrows) ==
  /\ flushTimerPending
  /\ Flush(batch, FALSE, sendThrows)
  /\ UNCHANGED <<retryVars, calc, lifeVars, handlerVars, boundaryVars, testingVars,
                 batchSize, reported>>

\* the promise sendBatch returned for its i-th call settles: flush resumes after the
\* await, and a rejection is caught and logged
SendSettles(i, rejects) ==
  /\ i \in 1..Len(sendLog.outcomes)
  /\ sendLog.outcomes[i] = "pending"
  /\ sendLog' = [sendLog EXCEPT
                   !.outcomes[i] = IF rejects THEN "rejected" ELSE "resolved",
                   !.consoleErrors = IF rejects THEN @ + 1 ELSE @]
  /\ UNCHANGED <<retryVars, calc, lifeVars, handlerVars, boundaryVars, testingVars,
                 batchSize, batch, flushTimer, flushTimerPending, reported>>

BatchNext ==
  \/ \E sendThrows \in BOOLEAN : BatchReporter(sendThrows)
  \/ \E sendThrows \in BOOLEAN : FlushTimerFires(sendThrows)
  \/ \E i \in 1..MaxReports, rejects \in BOOLEAN : SendSettles(i, rejects)

BatchSpec == BatchInit /\ [][BatchNext]_vars

\* every pending flush timer eventually fires
BatchFairSpec ==
  /\ BatchSpec
  /\ WF_vars(\E sendThrows \in BOOLEAN : FlushTimerFires(sendThrows))

\* Every asyncFn() call eventually settles and every pending timer eventually fires.
Settle(s) ==
  /\ s \in SeqIds
  /\ \/ OpResolve(s)
     \/ \E retryAnswer \in BOOLEAN, rnd \in 0..(RandSteps - 1) : OpReject(s, retryAnswer, rnd)

Fire(s) == s \in SeqIds /\ TimerFire(s)

FairSpec ==
  /\ Spec
  /\ \A s \in 1..MaxExecs : WF_vars(Settle(s)) /\ WF_vars(Fire(s))

\* ----- the hook when its owner calls neither abort() nor reset() -----
QuietNext ==
  \/ ExecuteWith(FALSE, MaxQuietExecs)
  \/ \E s \in SeqIds : OpResolve(s)
  \/ \E s \in SeqIds, retryAnswer \in BOOLEAN, rnd \in 0..(RandSteps - 1) :
       OpReject(s, retryAnswer, rnd)
  \/ \E s \in SeqIds : TimerFire(s)

\* every asyncFn() call eventually settles and every pending timer eventually fires
QuietFairSpec ==
  /\ Init /\ [][QuietNext]_vars
  /\ \A s \in 1..MaxQuietExecs : WF_vars(Settle(s)) /\ WF_vars(Fire(s))

TypeOK ==
  /\ maxAttempts \in 1..MaxAttemptsBound
  /\ attempt \in 0..MaxAttemptsBound
  /\ attempt = attemptRef
  /\ isRetrying \in BOOLEAN /\ isSuccess \in BOOLEAN /\ isFailed \in BOOLEAN
  /\ error = Null \/ error[1] = "err"
  /\ timeoutRef \in 0..Len(seqs)
  /\ Len(seqs) = Len(hist) /\ Len(seqs) + nullReturns = execCalls
  /\ \A s \in SeqIds : hist[s].invocations = seqs[s].currentAttempt

\* ----- observations used by the properties -----
\* chain s reaches the end of its runAttempt chain in this step
Ended(s) == seqs[s].pc # "done" /\ seqs'[s].pc = "done"

\* execute() is called in this step
ExecuteCalled == execCalls' = execCalls + 1

RECURSIVE InvocationCount(_)
InvocationCount(h) == IF h = <<>> THEN 0 ELSE Head(h).invocations + InvocationCount(Tail(h))

InFlight == {s \in SeqIds : seqs[s].pc = "inflight"}
TimersPending == {s \in SeqIds : seqs[s].pc = "waiting" /\ seqs[s].timer}

\* C1: a sequence nobody interferes with (no abort(), reset() or other execute()
\* while it runs), whose every attempt fails and whose shouldRetry never says no,
\* ends after exactly maxAttempts invocations with isFailed, attempt = maxAttempts,
\* error = the last failure, and onFailure called once with (last failure, maxAttempts).
C1_ExhaustionEndsFailed ==
  [][\A s \in SeqIds :
       (Ended(s) /\ hist'[s].clean /\ hist'[s].refusedAt = 0
                 /\ hist'[s].fails = hist'[s].invocations)
       => /\ hist'[s].invocations = maxAttempts
          /\ isFailed' /\ ~isSuccess'
          /\ attempt' = maxAttempts
          /\ hist'[s].lastErr = Err(s, maxAttempts)
          /\ error' = hist'[s].lastErr
          /\ hist'[s].onFailureLog = << <<hist'[s].lastErr, maxAttempts>> >>
          /\ hist'[s].onSuccessLog = <<>>
          /\ seqs'[s].result = Null]_vars

C1_Witness ==
  \E s \in SeqIds :
    /\ hist[s].clean /\ seqs[s].pc = "done" /\ hist[s].refusedAt = 0
    /\ maxAttempts = MaxAttemptsBound
    /\ hist[s].fails = maxAttempts /\ hist[s].invocations = maxAttempts
    /\ isFailed /\ attempt = maxAttempts /\ error = Err(s, maxAttempts)

\* C2: a sequence nobody interferes with, whose first k attempts fail (k < maxAttempts)
\* and whose attempt k+1 succeeds, resolves with that attempt's value after exactly
\* k+1 invocations, with isSuccess and not isFailed, onSuccess called once with the
\* value and onFailure never called.
C2_SuccessAfterFailures ==
  [][\A s \in SeqIds :
       (Ended(s) /\ hist'[s].clean /\ hist'[s].fails < hist'[s].invocations)
       => LET k == hist'[s].fails
          IN /\ k < maxAttempts
             /\ hist'[s].invocations = k + 1
             /\ seqs'[s].result = Val(s, k + 1)
             /\ isSuccess' /\ ~isFailed'
             /\ hist'[s].onSuccessLog = <<Val(s, k + 1)>>
             /\ hist'[s].onFailureLog = <<>>]_vars

C2_Witness ==
  \E s \in SeqIds :
    /\ hist[s].clean /\ seqs[s].pc = "done"
    /\ hist[s].fails >= 1 /\ hist[s].invocations = hist[s].fails + 1
    /\ seqs[s].result = Val(s, hist[s].fails + 1)
    /\ isSuccess /\ ~isFailed

\* C3: execute() called while an attempt is in flight is a no-op: it starts no chain
\* and the number of asyncFn invocations does not grow.
C3_ExecuteWhileRunningIsNoop ==
  [][(ExecuteCalled /\ InFlight # {})
       => /\ Len(seqs') = Len(seqs)
          /\ InvocationCount(hist') = InvocationCount(hist)]_vars

\* C4: execute() called while isRetrying is true and a delay timer is pending
\* returns null at once and changes neither attempt, isSuccess, isFailed, error,
\* delayMs, the abort flag nor the set of chains.
C4_ExecuteWhileWaitingIsNoop ==
  [][(ExecuteCalled /\ isRetrying /\ TimersPending # {})
       => /\ nullReturns' = nullReturns + 1
          /\ UNCHANGED <<attempt, isSuccess, isFailed, error, delayMs, abortRef, seqs>>]_vars

\* C5: at most one asyncFn invocation is in flight and at most one delay timer is pending.
C5_SingleThreadOfControl ==
  /\ Cardinality(InFlight) <= 1
  /\ Cardinality(TimersPending) <= 1

\* C6: a chain that was waiting for its delay when abort() was called never invokes
\* asyncFn again: its invocation count stays what it was at the abort.
C6_AbortWhileWaitingStopsChain ==
  \A s \in SeqIds : hist[s].invAtAbort > 0 => hist[s].invocations = hist[s].invAtAbort

\* a chain during which abort() was called (while in flight or while waiting)
AbortedDuring(s) == s \in SeqIds /\ (hist[s].abortedAttempt > 0 \/ hist[s].invAtAbort > 0)

\* C7: the promise of an execute() call during which abort() was called eventually
\* resolves with null.
C7_AbortedPromiseResolvesNull ==
  \A s \in 1..MaxExecs :
    AbortedDuring(s) ~> (s \in SeqIds /\ seqs[s].result = Null)

\* C8: the outcome of an attempt that was in flight when abort() was called is
\* discarded: when it settles, isSuccess, isFailed and error keep their values and
\* neither onSuccess nor onFailure is called.
C8_AbortedAttemptDiscarded ==
  [][\A s \in SeqIds :
       (seqs[s].pc = "inflight" /\ hist[s].abortedAttempt = seqs[s].currentAttempt
          /\ seqs'[s].pc # "inflight")
       => /\ UNCHANGED <<isSuccess, isFailed, error>>
          /\ hist'[s].onSuccessLog = hist[s].onSuccessLog
          /\ hist'[s].onFailureLog = hist[s].onFailureLog]_vars

\* C9: isRetrying or a non-zero delayMs implies a pending delay timer; once every
\* chain has halted isRetrying is false and delayMs is 0.
C9_RetryingImpliesTimer ==
  /\ (isRetrying \/ delayMs # 0) => TimersPending # {}
  /\ (\A s \in SeqIds : ~Live(seqs[s])) => (~isRetrying /\ delayMs = 0)

\* shouldRetry answers false for the failure of attempt n < maxAttempts of chain s in this step
Refused(s) == hist[s].refusedAt = 0 /\ hist'[s].refusedAt > 0

\* C10: when shouldRetry answers false for the failure e of attempt n < maxAttempts,
\* the chain ends in that step as Failed: n invocations, error = e, onFailure called
\* once with (e, n), no timer started; and the chain does nothing afterwards.
C10_RefusalEndsFailed ==
  [][\A s \in SeqIds :
       /\ Refused(s)
          => LET n == hist'[s].refusedAt
                 e == hist'[s].lastErr
             IN /\ n < maxAttempts
                /\ e = Err(s, n)
                /\ seqs'[s].pc = "done" /\ seqs'[s].result = Null
                /\ isFailed' /\ error' = e
                /\ hist'[s].invocations = n
                /\ hist'[s].onFailureLog = << <<e, n>> >>
                /\ hist'[s].onSuccessLog = <<>>
                /\ ~seqs'[s].timer /\ hist'[s].timersStarted = n - 1
                /\ UNCHANGED <<timeoutRef, isRetrying, delayMs>>
       /\ hist[s].refusedAt > 0 => (seqs'[s] = seqs[s] /\ hist'[s] = hist[s])]_vars

C10_Witness ==
  \E s \in SeqIds :
    /\ hist[s].refusedAt = 1 /\ maxAttempts > 1
    /\ seqs[s].pc = "done" /\ hist[s].invocations = 1
    /\ isFailed /\ error = Err(s, 1)
    /\ hist[s].onFailureLog = << <<Err(s, 1), 1>> >>

\* chain s has ended Failed (terminal failure, onFailure called)
FailedEnded(s) == seqs[s].pc = "done" /\ hist[s].onFailureLog # <<>>

\* chain s has ended Succeeded (an attempt resolved, onSuccess called)
SucceededEnded(s) == seqs[s].pc = "done" /\ hist[s].onSuccessLog # <<>>

\* execute() passes its guard and starts a chain in this step
ExecuteStarted == ExecuteCalled /\ Len(seqs') = Len(seqs) + 1

\* C11: reset() called after a sequence has ended Failed leaves attempt = 0, isSuccess,
\* isFailed and isRetrying false, delayMs = 0 and error = null; and an execute() issued
\* after that reset (attempt still 0, nothing failed since) starts a chain from the
\* state a first execute() on a fresh instance starts from: the same cells and refs,
\* one chain at attempt 1, and no other chain of the instance able to act.
C11_ResetThenExecuteAsFresh ==
  [][/\ (Reset /\ isFailed /\ \E s \in SeqIds : FailedEnded(s))
          => /\ attempt' = 0 /\ ~isSuccess' /\ ~isFailed' /\ ~isRetrying'
             /\ delayMs' = 0 /\ error' = Null
     /\ (ExecuteCalled /\ attempt = 0 /\ ~isFailed /\ \E s \in SeqIds : FailedEnded(s))
          => /\ ExecuteStarted
             /\ attempt' = 1 /\ attemptRef' = 1
             /\ ~isSuccess' /\ ~isFailed' /\ ~isRetrying'
             /\ delayMs' = 0 /\ error' = Null
             /\ ~abortRef' /\ timeoutRef' = 0
             /\ seqs'[Len(seqs')] = NewSeq
             /\ \A s \in SeqIds : ~Live(seqs'[s])]_vars

OnlyTimerCleared ==
  /\ Len(seqs') = Len(seqs)
  /\ \A s \in SeqIds :
       \/ seqs'[s] = seqs[s]
       \/ s = timeoutRef /\ seqs'[s] = [seqs[s] EXCEPT !.timer = FALSE]

\* C16: abort() sets the abort flag, cancels the timer held in timeoutRef, sets
\* isRetrying to false and delayMs to 0; attempt, isSuccess, isFailed and error keep
\* their values, no chain is ended and no callback is called.
C16_AbortFrame ==
  [][Abort =>
       /\ abortRef' /\ ~isRetrying' /\ delayMs' = 0 /\ timeoutRef' = 0
       /\ UNCHANGED <<attempt, isSuccess, isFailed, error>>
       /\ OnlyTimerCleared
       /\ \A s \in SeqIds : /\ hist'[s].onSuccessLog = hist[s].onSuccessLog
                            /\ hist'[s].onFailureLog = hist[s].onFailureLog]_vars

C16_Witness ==
  /\ abortRef /\ ~isRetrying /\ delayMs = 0 /\ ~isFailed /\ error = Null
  /\ \E s \in SeqIds : hist[s].invAtAbort > 0 /\ attempt = hist[s].invAtAbort
                       /\ seqs[s].pc = "waiting" /\ ~seqs[s].timer

\* C17: error is non-null only while isFailed is true.
C17_ErrorOnlyWhenFailed == error # Null => isFailed

C17_Witness == error # Null /\ isFailed

\* the promise of chain s has resolved with a value / with null on the terminal-failure
\* path (the last attempt failed and no timer was started after it)
ResolvedSucceeded(q) == q.pc = "done" /\ q.result # Null
ResolvedFailed(q, h) == q.pc = "done" /\ q.result = Null /\ h.timersStarted < h.fails

\* C18: a callback of a chain is called only while the chain's promise is still
\* pending, in the run that resolves it, and never once it has resolved; a chain that
\* ends Succeeded has called onSuccess exactly once with the result, a chain that ends
\* Failed has called onFailure exactly once with the error and the attempts used.
C18_CallbackBeforeResolve ==
  [][\A s \in SeqIds :
       /\ (\/ hist'[s].onSuccessLog # hist[s].onSuccessLog
           \/ hist'[s].onFailureLog # hist[s].onFailureLog)
          => seqs[s].result = Pending /\ seqs'[s].result # Pending
       /\ (Ended(s) /\ ResolvedSucceeded(seqs'[s]))
          => /\ hist'[s].onSuccessLog = <<seqs'[s].result>>
             /\ hist'[s].onFailureLog = <<>>
       /\ (Ended(s) /\ ResolvedFailed(seqs'[s], hist'[s]))
          => /\ hist'[s].onFailureLog = << <<hist'[s].lastErr, hist'[s].invocations>> >>
             /\ hist'[s].onSuccessLog = <<>>]_vars

C18_Witness ==
  /\ \E s \in SeqIds : ResolvedSucceeded(seqs[s]) /\ hist[s].onSuccessLog = <<seqs[s].result>>
  /\ \E s \in SeqIds : /\ ResolvedFailed(seqs[s], hist[s])
                       /\ hist[s].onFailureLog = << <<hist[s].lastErr, hist[s].invocations>> >>

\* the sequence started last has ended Succeeded or Failed and reset() was not called since
LastEnded ==
  /\ Len(seqs) > 0
  /\ attempt # 0
  /\ \/ ResolvedSucceeded(seqs[Len(seqs)])
     \/ ResolvedFailed(seqs[Len(seqs)], hist[Len(seqs)])

\* C19: once the sequence has ended Succeeded or Failed, every step that is neither a
\* reset() nor an execute() starting a new sequence leaves attempt, isSuccess, isFailed,
\* isRetrying, delayMs and error unchanged and invokes asyncFn no more.
C19_TerminalUntilResetOrExecute ==
  [][(LastEnded /\ ~Reset /\ ~ExecuteStarted)
       => /\ UNCHANGED <<attempt, isSuccess, isFailed, isRetrying, delayMs, error>>
          /\ InvocationCount(hist') = InvocationCount(hist)]_vars

\* C20: attempt never exceeds maxAttempts, no chain invokes asyncFn more than
\* maxAttempts times, and attempt is 0 exactly from creation or a reset() until the
\* next execute() that starts a sequence.
C20_AttemptBounded ==
  /\ [](/\ attempt <= maxAttempts
        /\ \A s \in SeqIds : hist[s].invocations <= maxAttempts
        /\ Len(seqs) = 0 => attempt = 0)
  /\ [][/\ (attempt = 0 /\ attempt' # 0) => ExecuteStarted
        /\ (attempt # 0 /\ attempt' = 0) => Reset
        /\ ExecuteStarted => attempt' = 1
        /\ Reset => attempt' = 0]_vars

C20_Witness ==
  /\ maxAttempts = MaxAttemptsBound
  /\ attempt = maxAttempts
  /\ \E s \in SeqIds : hist[s].invocations = maxAttempts /\ seqs[s].pc = "done"

\* the capped delay of the claim: min(initialDelayMs * backoffMultiplier^(n-1), maxDelayMs)
Capped(c) == Min(c.initialDelayMs * Pow(c.backoffMultiplier, c.currentAttempt - 1), c.maxDelayMs)

\* C13: for jitter in [0, 1] the delay computed after failed attempt n lies in
\* [max(0, capped*(1-jitter)), capped*(1+jitter)], capped as above (exponent n-1, so
\* exponent 0 after attempt 1), and never exceeds maxDelayMs*(1+jitter).
\* (delay is in units of 1/(100*RandSteps) ms, jitter in percent)
C13_DelayWithinJitterInterval ==
  (calc.called /\ calc.jitterPct <= 100)
    => /\ calc.delay >= Max(0, Capped(calc) * (100 - calc.jitterPct)) * RandSteps
       /\ calc.delay <= Capped(calc) * (100 + calc.jitterPct) * RandSteps
       /\ calc.delay <= calc.maxDelayMs * (100 + calc.jitterPct) * RandSteps
       /\ calc.currentAttempt = 1
            => calc.delay <= Min(calc.initialDelayMs, calc.maxDelayMs)
                               * (100 + calc.jitterPct) * RandSteps

C13_Witness ==
  /\ calc.called /\ calc.jitterPct = 10 /\ calc.currentAttempt = 3
  /\ calc.initialDelayMs = 10 /\ calc.backoffMultiplier = 2 /\ calc.maxDelayMs = 30000
  /\ calc.delay >= 40 * 90 * RandSteps /\ calc.delay <= 40 * 110 * RandSteps

\* C14: the computed delay is never negative, for any jitter (jitter > 1 included).
C14_DelayNeverNegative == calc.called => calc.delay >= 0

\* the delays calculateDelay can return after failed attempt n under the default options
DefaultDelays(n) ==
  {calculateDelay(n, DefaultInitialDelayMs, DefaultMaxDelayMs, DefaultBackoffMultiplier,
                  DefaultJitterPct, rnd) : rnd \in 0..(RandSteps - 1)}

\* what the failure e of attempt n of chain s leads to, whichever way asyncFn failed:
\* the terminal-failure path, or a delay timer before attempt n+1
FailureHandled(s) ==
  LET n == seqs[s].currentAttempt
      e == Err(s, n)
  IN /\ hist'[s].lastErr = e
     /\ UNCHANGED <<attempt, isSuccess, abortRef>>
     /\ IF n >= maxAttempts \/ hist'[s].refusedAt = n
          THEN /\ seqs'[s].pc = "done" /\ seqs'[s].result = Null
               /\ isFailed' /\ error' = e
               /\ hist'[s].onFailureLog = Append(hist[s].onFailureLog, <<e, n>>)
               /\ hist'[s].timersStarted = hist[s].timersStarted
               /\ UNCHANGED <<isRetrying, delayMs, timeoutRef>>
          ELSE /\ seqs'[s].pc = "waiting" /\ seqs'[s].timer /\ seqs'[s].result = Pending
               /\ isRetrying' /\ delayMs' \in DefaultDelays(n) /\ timeoutRef' = s
               /\ hist'[s].onFailureLog = hist[s].onFailureLog
               /\ hist'[s].timersStarted = hist[s].timersStarted + 1
               /\ UNCHANGED <<isFailed, error>>

\* C12: whichever way asyncFn fails (rejected promise or synchronous throw), the
\* promise returned by execute() never rejects, and the failure is handled by the same
\* rule: terminal failure (isFailed, error, onFailure, null) when the attempts are used
\* up or shouldRetry says no, otherwise isRetrying, delayMs and a timer for the next attempt.
C12_ThrowHandledLikeRejection ==
  /\ [](\A s \in SeqIds : seqs[s].result # Rejected)
  /\ [][\A s \in SeqIds : hist'[s].fails = hist[s].fails + 1 => FailureHandled(s)]_vars

C12_Witness ==
  \E s \in SeqIds :
    /\ hist[s].syncFails >= 1 /\ hist[s].syncFails < hist[s].fails
    /\ FailedEnded(s) /\ isFailed /\ error = hist[s].lastErr
    /\ seqs[s].result = Null

\* C22: for maxErrors >= 1, after any sequence of handleError and clearErrors calls,
\* errors holds the min(k, maxErrors) most recently handled errors since the last
\* clearErrors (k of them handled since), newest first; its length never exceeds
\* maxErrors, and latestError is the most recently handled error, or null when the
\* history is empty.
C22_HistoryIsNewestMaxErrors ==
  LET k == Len(handledLog)
  IN /\ errors = SubSeq(handledLog, 1, Min(k, maxErrors))
     /\ Len(errors) <= maxErrors
     /\ latestError = IF k = 0 THEN Null ELSE handledLog[1]

C22_Witness ==
  /\ Len(handledLog) > maxErrors
  /\ Len(onErrorLog) > Len(handledLog)
  /\ maxErrors > 1
  /\ errors[1] # errors[2]
  /\ latestError = handledLog[1]

\* execute() calls made by the owner of the hook
ExplicitCalls == execCalls - autoCalls

\* C21: the operation is invoked without an explicit execute() call if and only if
\* autoStart is true: with autoStart = true exactly one sequence is started by the
\* hook itself, when the instance is created; with autoStart = false none is, and the
\* operation is not invoked until execute() is called.
C21_AutoStartOnceIffOption ==
  /\ autoCalls = IF autoStart /\ effectSeen # NoRender THEN 1 ELSE 0
  /\ ExplicitCalls = 0 => Len(seqs) = autoCalls

\* C28: once the hook instance is unmounted, asyncFn is not invoked again, whether
\* the unmount came while a delay timer was pending or while an attempt was in flight.
C28_NoAttemptAfterUnmount ==
  [][~mounted => InvocationCount(hist') = InvocationCount(hist)]_vars

\* C24: ErrorBoundary renders its children while no error has been caught and the
\* fallback from the moment a child throws until resetBoundary() is called; onError
\* has been called exactly once per caught error (with that error), onReset exactly
\* once per resetBoundary() call, and resetBoundary() leaves the error state null.
C24_FallbackUntilReset ==
  /\ [](/\ Render(boundaryState).shows = (IF boundaryLog.uncleared THEN "fallback" ELSE "children")
        /\ boundaryLog.uncleared
             => boundaryState.error = boundaryLog.thrown[Len(boundaryLog.thrown)]
        /\ Len(boundaryLog.onError) = Len(boundaryLog.thrown)
        /\ \A i \in 1..Len(boundaryLog.thrown) : boundaryLog.onError[i][1] = boundaryLog.thrown[i]
        /\ boundaryLog.onReset = boundaryLog.resets)
  /\ [][boundaryLog'.resets # boundaryLog.resets
          => boundaryState'.error = Null /\ boundaryState'.errorInfo = Null]_vars

C24_Witness ==
  /\ Len(boundaryLog.thrown) >= 2
  /\ boundaryLog.resets >= 1 /\ boundaryLog.onReset = boundaryLog.resets
  /\ boundaryLog.onError[1][1] # boundaryLog.onError[2][1]
  /\ Render(boundaryState).shows = "fallback"

RECURSIVE Flatten(_)
Flatten(batches) == IF batches = <<>> THEN <<>> ELSE Head(batches) \o Flatten(Tail(batches))

\* the events of the first n reports, in arrival order
Arrived(n) == [k \in 1..n |-> k]

\* C30: for batchSize >= 1, every reported error has been passed to sendBatch at most
\* once and otherwise waits in the batch, the batches passed and the waiting events
\* are the reports in arrival order, no batch passed is empty or larger than
\* batchSize, a flush timer is pending whenever the batch is not empty, so that every
\* event is eventually passed to sendBatch, and no failure of sendBatch (synchronous
\* throw or rejection) makes the reporter throw.
C30_BatchesInOrderExactlyOnce ==
  /\ [](/\ Flatten(sendLog.sent) \o batch = Arrived(reported)
        /\ \A i \in 1..Len(sendLog.sent) :
             Len(sendLog.sent[i]) >= 1 /\ Len(sendLog.sent[i]) <= batchSize
        /\ Len(batch) < batchSize
        /\ batch # <<>> => (flushTimer /\ flushTimerPending)
        /\ ~sendLog.threw)
  /\ \A k \in 1..MaxReports :
       (reported >= k) ~> (Len(Flatten(sendLog.sent)) >= k)

C30_Witness ==
  /\ batchSize = 3
  /\ Len(sendLog.sent) >= 2
  /\ Len(sendLog.sent[1]) = 3 /\ Len(sendLog.sent[2]) = 1
  /\ sendLog.outcomes[1] = "threw" /\ sendLog.outcomes[2] = "rejected"
  /\ sendLog.consoleErrors = 2
  /\ batch = <<5>>

\* C27: isSuccess and isFailed are never both true, under any interleaving of
\* execute(), abort(), reset(), operation completions and timer firings.
C27_SuccessAndFailedExclusive == ~(isSuccess /\ isFailed)

\* chain s is waiting for its delay timer and abort() was not called during the chain
WaitingUnaborted(s) == seqs[s].pc = "waiting" /\ seqs[s].timer /\ ~AbortedDuring(s)

\* C25: after a retryable failure of attempt n (n < maxAttempts, shouldRetry true, no
\* abort) the instance shows isRetrying = true and delayMs = the delay computed for n
\* for as long as the chain waits; attempt n+1 is invoked only by the firing of the
\* delay timer, and that step sets attempt = n+1, isRetrying = false and delayMs = 0.
C25_WaitThenNextAttempt ==
  /\ [](\A s \in SeqIds :
          WaitingUnaborted(s)
            => isRetrying /\ delayMs \in DefaultDelays(seqs[s].currentAttempt))
  /\ [][\A s \in SeqIds :
          hist'[s].invocations # hist[s].invocations
            => /\ seqs[s].pc = "waiting" /\ seqs[s].timer
               /\ hist'[s].invocations = hist[s].invocations + 1
               /\ attempt' = seqs[s].currentAttempt + 1
               /\ ~isRetrying' /\ delayMs' = 0]_vars

\* C26: when every invocation of asyncFn settles and every pending timer fires and
\* neither abort() nor reset() is called, every sequence eventually ends Succeeded or
\* Failed with its promise resolved; no sequence invokes asyncFn more than
\* maxAttempts times or waits more than maxAttempts - 1 times.
C26_EverySequenceEnds ==
  /\ [](\A s \in SeqIds :
          /\ hist[s].invocations <= maxAttempts
          /\ hist[s].timersStarted <= maxAttempts - 1
          /\ seqs[s].pc = "done"
               => (\/ ResolvedSucceeded(seqs[s]) /\ SucceededEnded(s)
                   \/ ResolvedFailed(seqs[s], hist[s]) /\ FailedEnded(s)))
  /\ \A s \in 1..MaxQuietExecs :
       (s \in SeqIds)
         ~> (s \in SeqIds /\ (ResolvedSucceeded(seqs[s]) \/ ResolvedFailed(seqs[s], hist[s])))

C26_Witness ==
  /\ maxAttempts = MaxAttemptsBound
  /\ \E s \in SeqIds :
       /\ ResolvedFailed(seqs[s], hist[s])
       /\ hist[s].invocations = maxAttempts /\ hist[s].timersStarted = maxAttempts - 1
  /\ \E s \in SeqIds : ResolvedSucceeded(seqs[s]) /\ hist[s].timersStarted >= 1

\* C29: within one sequence, the step in which an attempt resolves successfully
\* (onSuccess is called) starts no delay timer, does not set isFailed and does not
\* call onFailure, and after it the sequence never invokes asyncFn again, starts no
\* timer and calls onFailure no more, even when the onSuccess callback throws.
C29_SuccessIsFinal ==
  [][\A s \in SeqIds :
       /\ hist'[s].onSuccessLog # hist[s].onSuccessLog
            => /\ hist'[s].timersStarted = hist[s].timersStarted
               /\ hist'[s].onFailureLog = hist[s].onFailureLog
               /\ isFailed' = isFailed
               /\ seqs'[s].pc = "done"
       /\ hist[s].onSuccessLog # <<>>
            => /\ hist'[s].invocations = hist[s].invocations
               /\ hist'[s].timersStarted = hist[s].timersStarted
               /\ hist'[s].onFailureLog = hist[s].onFailureLog]_vars
====
